---- MODULE Spec2Model ----
(***************************************************************************)
(* Model of src/Utility/main.py, "Auto-Add Additive Dissolve": a script    *)
(* that sets the project's default video transition and then, for every    *)
(* video track, selects each adjacent pair of still clips and sends the    *)
(* Ctrl/Cmd T shortcut to the host.  The host (project, timeline, clips,   *)
(* selection, keyboard) is modelled by the calls the script issues on it   *)
(* and by the little state those calls have: the setting, the selection,   *)
(* the keys held down and the number of transitions actually inserted.     *)
(***************************************************************************)
EXTENDS Integers, Sequences, FiniteSets, TLC

\* ------------------------------------------------------------------ bounds
MaxTracks == 2          \* video tracks of a timeline
MaxClips == 3           \* clips of a timeline, all tracks together

\* --------------------------------------------------------------- constants
TRANSITION_NAME == "Additive Dissolve"
OtherTransition == "Cross Dissolve"
SettingValues == {TRANSITION_NAME, OtherTransition}
StillValues == {"True", "False"}
win32 == <<"w", "i", "n", "3", "2">>
darwin == <<"d", "a", "r", "w", "i", "n">>
Platforms == {win32, darwin}
NoClip == <<0, 0>>

VARIABLES
    pc,                 \* position of main()
    platform,           \* sys.platform, a sequence of characters
    hasProject,         \* pm.GetCurrentProject() is not None
    hasTimeline,        \* project.GetCurrentTimeline() is not None
    tracks,             \* tracks[t] = GetItemListInTrack("video", t): clips [start, still]
    setting,            \* the project's standardVideoTransition
    selected,           \* host: clips selected since the last ClearClipSelections
    pressed,            \* host: keys held down
    hostTransitions,    \* host: transitions actually inserted on the timeline
    calls,              \* every host call issued so far, in order
    out,                \* every message printed so far, in order
    track_idx,          \* loop variable of line 110
    stills,             \* the sorted stills of the current track (clip ids <<track, index>>)
    pairIdx,            \* position of zip(stills, stills[1:]) (line 120)
    keyIdx,             \* position of the loop over keys in ui_keystroke
    clips_selected,
    transitions_added

vars == <<pc, platform, hasProject, hasTimeline, tracks, setting, selected, pressed,
          hostTransitions, calls, out, track_idx, stills, pairIdx, keyIdx,
          clips_selected, transitions_added>>

\* ------------------------------------------------------------------ inputs
\* The item lists of one track with k clips: clips of a track do not overlap, so
\* their start positions are distinct; the list order is the host's.
TracksOfLen(k) ==
    {[i \in 1..k |-> [start |-> p[i], still |-> s[i]]] :
        p \in Permutations(1..k), s \in [1..k -> StillValues]}

RECURSIVE TimelinesOf(_, _)
TimelinesOf(n, budget) ==
    IF n = 0 THEN {<<>>}
    ELSE UNION {{<<tr>> \o rest : tr \in TracksOfLen(k), rest \in TimelinesOf(n - 1, budget - k)} :
                    k \in 0..budget}

Timelines == UNION {TimelinesOf(n, MaxClips) : n \in 0..MaxTracks}

\* ----------------------------------------------------------------- helpers
Call(op, clip, val) == [op |-> op, clip |-> clip, val |-> val]
Msg(m, n, p) == [msg |-> m, n |-> n, pairs |-> p]

\* str.startswith
StartsWith(s, prefix) ==
    Len(s) >= Len(prefix) /\ SubSeq(s, 1, Len(prefix)) = prefix

\* mutant: "win" in sys.platform instead of startswith
RECURSIVE Contains(_, _)
Contains(s, sub) ==
    IF Len(s) < Len(sub) THEN FALSE
    ELSE StartsWith(s, sub) \/ Contains(Tail(s), sub)
ShortcutKeys_Contains(plat) ==
    IF Contains(plat, <<"w", "i", "n">>) THEN <<"Ctrl", "T">> ELSE <<"Cmd", "T">>

\* the keys of line 130
ShortcutKeys(plat) ==
    IF StartsWith(plat, <<"w", "i", "n">>) THEN <<"Ctrl", "T">> ELSE <<"Cmd", "T">>

GetStart(c) == tracks[c[1]][c[2]].start
GetClipProperty(c) == tracks[c[1]][c[2]].still

\* mutant: the filter on IsStill is dropped
RECURSIVE FilterStills_All(_, _)
FilterStills_All(t, i) ==
    IF i > Len(tracks[t]) THEN <<>>
    ELSE <<<<t, i>>>> \o FilterStills_All(t, i + 1)

\* line 113: the list comprehension keeps the item order
RECURSIVE FilterStills(_, _)
FilterStills(t, i) ==
    IF i > Len(tracks[t]) THEN <<>>
    ELSE (IF GetClipProperty(<<t, i>>) = "True" THEN <<<<t, i>>>> ELSE <<>>)
         \o FilterStills(t, i + 1)

\* list.sort(key=...): stable; for short lists a binary insertion sort that puts an
\* element after the elements whose key is not greater
RECURSIVE InsertByStart(_, _)
InsertByStart(sorted, c) ==
    IF sorted = <<>> THEN <<c>>
    ELSE IF GetStart(c) < GetStart(sorted[1]) THEN <<c>> \o sorted
    ELSE <<sorted[1]>> \o InsertByStart(Tail(sorted), c)

\* mutant: the sort is dropped, the stills stay in item order
SortByStart_Unsorted(list, n) == list

RECURSIVE SortByStart(_, _)
SortByStart(list, n) ==
    IF n = 0 THEN <<>>
    ELSE InsertByStart(SortByStart(list, n - 1), list[n])

Init ==
    /\ pc = "start"
    /\ platform \in Platforms
    /\ \/ hasProject = FALSE /\ hasTimeline = FALSE /\ tracks = <<>>
       \/ hasProject = TRUE /\ hasTimeline = FALSE /\ tracks = <<>>
       \/ hasProject = TRUE /\ hasTimeline = TRUE /\ tracks \in Timelines
    /\ setting \in SettingValues
    /\ selected = {}
    /\ pressed = {}
    /\ hostTransitions = 0
    /\ calls = <<>>
    /\ out = <<>>
    /\ track_idx = 0
    /\ stills = <<>>
    /\ pairIdx = 0
    /\ keyIdx = 0
    /\ clips_selected = 0
    /\ transitions_added = 0

\* ----------------------------------------------------------------- actions
\* lines 76-81
GetProject ==
    /\ pc = "start"
    /\ IF ~hasProject
         THEN /\ out' = Append(out, Msg("no_project", 0, 0))
              /\ pc' = "returned"
         ELSE /\ out' = out
              /\ pc' = "get_timeline"
    /\ UNCHANGED <<platform, hasProject, hasTimeline, tracks, setting, selected, pressed,
                   hostTransitions, calls, track_idx, stills, pairIdx, keyIdx,
                   clips_selected, transitions_added>>

\* lines 83-86
GetTimeline ==
    /\ pc = "get_timeline"
    /\ IF ~hasTimeline
         THEN /\ out' = Append(out, Msg("no_timeline", 0, 0))
              /\ pc' = "returned"
         ELSE /\ out' = out
              /\ pc' = "step1"
    /\ UNCHANGED <<platform, hasProject, hasTimeline, tracks, setting, selected, pressed,
                   hostTransitions, calls, track_idx, stills, pairIdx, keyIdx,
                   clips_selected, transitions_added>>

\* mutant: SetSetting is called whatever GetSetting returned
EnsureDefault_Unconditional ==
    /\ pc = "step1"
    /\ \E ok \in BOOLEAN :
         IF ok
           THEN /\ setting' = TRANSITION_NAME
                /\ calls' = calls \o <<Call("GetSetting", NoClip, setting),
                                       Call("SetSetting", NoClip, TRANSITION_NAME)>>
                /\ out' = Append(out, Msg("set_default", 0, 0))
           ELSE /\ setting' = setting
                /\ calls' = calls \o <<Call("GetSetting", NoClip, setting),
                                       Call("SetSetting", NoClip, TRANSITION_NAME),
                                       Call("GetSetting", NoClip, setting)>>
                /\ out' = Append(out, Msg("could_not_set", 0, 0))
    /\ pc' = "step2"
    /\ UNCHANGED <<platform, hasProject, hasTimeline, tracks, selected, pressed,
                   hostTransitions, track_idx, stills, pairIdx, keyIdx,
                   clips_selected, transitions_added>>

\* mutant: a rejected SetSetting returns from main()
EnsureDefault_RejectFatal ==
    /\ pc = "step1"
    /\ IF setting # TRANSITION_NAME
         THEN \E ok \in BOOLEAN :
                IF ok
                  THEN /\ setting' = TRANSITION_NAME
                       /\ calls' = calls \o <<Call("GetSetting", NoClip, setting),
                                              Call("SetSetting", NoClip, TRANSITION_NAME)>>
                       /\ out' = Append(out, Msg("set_default", 0, 0))
                       /\ pc' = "step2"
                  ELSE /\ setting' = setting
                       /\ calls' = calls \o <<Call("GetSetting", NoClip, setting),
                                              Call("SetSetting", NoClip, TRANSITION_NAME),
                                              Call("GetSetting", NoClip, setting)>>
                       /\ out' = Append(out, Msg("could_not_set", 0, 0))
                       /\ pc' = "returned"
         ELSE /\ setting' = setting
              /\ calls' = Append(calls, Call("GetSetting", NoClip, setting))
              /\ out' = Append(out, Msg("already_default", 0, 0))
              /\ pc' = "step2"
    /\ UNCHANGED <<platform, hasProject, hasTimeline, tracks, selected, pressed,
                   hostTransitions, track_idx, stills, pairIdx, keyIdx,
                   clips_selected, transitions_added>>

\* lines 88-96: step 1.  SetSetting answers ok or not; a rejected change leaves the
\* setting as it was, and the warning reads the setting once more (line 94).
EnsureDefault ==
    /\ pc = "step1"
    /\ IF setting # TRANSITION_NAME
         THEN \E ok \in BOOLEAN :
                IF ok
                  THEN /\ setting' = TRANSITION_NAME
                       /\ calls' = calls \o <<Call("GetSetting", NoClip, setting),
                                              Call("SetSetting", NoClip, TRANSITION_NAME)>>
                       /\ out' = Append(out, Msg("set_default", 0, 0))
                  ELSE /\ setting' = setting
                       /\ calls' = calls \o <<Call("GetSetting", NoClip, setting),
                                              Call("SetSetting", NoClip, TRANSITION_NAME),
                                              Call("GetSetting", NoClip, setting)>>
                       /\ out' = Append(out, Msg("could_not_set", 0, 0))
         ELSE /\ setting' = setting
              /\ calls' = Append(calls, Call("GetSetting", NoClip, setting))
              /\ out' = Append(out, Msg("already_default", 0, 0))
    /\ pc' = "step2"
    /\ UNCHANGED <<platform, hasProject, hasTimeline, tracks, selected, pressed,
                   hostTransitions, track_idx, stills, pairIdx, keyIdx,
                   clips_selected, transitions_added>>

\* lines 99-100: resolve.UIManager and bmd.UIDispatcher(ui).  The script defines no
\* name bmd: the host's script runner provides it or the line raises, and the
\* exception leaves main().
AcquireUI ==
    /\ pc = "step2"
    /\ \E available \in BOOLEAN :
         pc' = IF available THEN "count_tracks" ELSE "raised"
    /\ UNCHANGED <<platform, hasProject, hasTimeline, tracks, setting, selected, pressed,
                   hostTransitions, calls, out, track_idx, stills, pairIdx, keyIdx,
                   clips_selected, transitions_added>>

\* mutant: the return of line 105 is missing
CheckTracks_NoReturn ==
    /\ pc = "count_tracks"
    /\ out' = IF Len(tracks) = 0 THEN Append(out, Msg("no_video_tracks", 0, 0)) ELSE out
    /\ pc' = "track"
    /\ track_idx' = 1
    /\ clips_selected' = 0
    /\ transitions_added' = 0
    /\ UNCHANGED <<platform, hasProject, hasTimeline, tracks, setting, selected, pressed,
                   hostTransitions, calls, stills, pairIdx, keyIdx>>

\* lines 102-108 and the start of the loop of line 110
CheckTracks ==
    /\ pc = "count_tracks"
    /\ IF Len(tracks) = 0
         THEN /\ out' = Append(out, Msg("no_video_tracks", 0, 0))
              /\ pc' = "returned"
              /\ track_idx' = track_idx
         ELSE /\ out' = out
              /\ pc' = "track"
              /\ track_idx' = 1
    /\ clips_selected' = 0
    /\ transitions_added' = 0
    /\ UNCHANGED <<platform, hasProject, hasTimeline, tracks, setting, selected, pressed,
                   hostTransitions, calls, stills, pairIdx, keyIdx>>

\* lines 110-120: one iteration header of the track loop
NextTrack ==
    /\ pc = "track"
    /\ IF track_idx > Len(tracks)
         THEN /\ pc' = "final_clear"
              /\ UNCHANGED <<track_idx, stills, pairIdx>>
         ELSE LET kept == FilterStills(track_idx, 1) IN
              IF Len(kept) < 2
                THEN /\ pc' = "track"
                     /\ track_idx' = track_idx + 1
                     /\ stills' = kept
                     /\ pairIdx' = pairIdx
                ELSE /\ pc' = "clear"
                     /\ track_idx' = track_idx
                     /\ stills' = SortByStart(kept, Len(kept))
                     /\ pairIdx' = 1
    /\ UNCHANGED <<platform, hasProject, hasTimeline, tracks, setting, selected, pressed,
                   hostTransitions, calls, out, keyIdx, clips_selected, transitions_added>>

clip_a == stills[pairIdx]
clip_b == stills[pairIdx + 1]

\* line 122
ClearClipSelections ==
    /\ pc = "clear"
    /\ selected' = {}
    /\ calls' = Append(calls, Call("ClearClipSelections", NoClip, ""))
    /\ pc' = "enable_a"
    /\ UNCHANGED <<platform, hasProject, hasTimeline, tracks, setting, pressed,
                   hostTransitions, out, track_idx, stills, pairIdx, keyIdx,
                   clips_selected, transitions_added>>

\* lines 123-124
SetClipEnabled ==
    /\ pc \in {"enable_a", "enable_b"}
    /\ calls' = Append(calls, Call("SetClipEnabled",
                                   IF pc = "enable_a" THEN clip_a ELSE clip_b, "True"))
    /\ pc' = IF pc = "enable_a" THEN "enable_b" ELSE "select_a"
    /\ UNCHANGED <<platform, hasProject, hasTimeline, tracks, setting, selected, pressed,
                   hostTransitions, out, track_idx, stills, pairIdx, keyIdx,
                   clips_selected, transitions_added>>

\* lines 125-127
Select ==
    /\ pc \in {"select_a", "select_b"}
    /\ LET c == IF pc = "select_a" THEN clip_a ELSE clip_b IN
         /\ selected' = selected \cup {c}
         /\ calls' = Append(calls, Call("Select", c, ""))
    /\ IF pc = "select_a"
         THEN /\ pc' = "select_b"
              /\ UNCHANGED <<clips_selected, keyIdx>>
         ELSE /\ pc' = "keypress"
              /\ clips_selected' = clips_selected + 2
              /\ keyIdx' = 1
    /\ UNCHANGED <<platform, hasProject, hasTimeline, tracks, setting, pressed,
                   hostTransitions, out, track_idx, stills, pairIdx, transitions_added>>

\* lines 130 and 70-71: ui_keystroke presses its keys in order
KeyPress ==
    /\ pc = "keypress"
    /\ LET keys == ShortcutKeys(platform) IN
         /\ pressed' = pressed \cup {keys[keyIdx]}
         /\ calls' = Append(calls, Call("KeyPress", NoClip, keys[keyIdx]))
         /\ IF keyIdx < Len(keys)
              THEN pc' = "keypress" /\ keyIdx' = keyIdx + 1
              ELSE pc' = "release" /\ keyIdx' = keyIdx
    /\ UNCHANGED <<platform, hasProject, hasTimeline, tracks, setting, selected,
                   hostTransitions, out, track_idx, stills, pairIdx,
                   clips_selected, transitions_added>>

\* line 72
KeyReleaseAll ==
    /\ pc = "release"
    /\ pressed' = {}
    /\ calls' = Append(calls, Call("KeyReleaseAll", NoClip, ""))
    /\ pc' = "sleep"
    /\ UNCHANGED <<platform, hasProject, hasTimeline, tracks, setting, selected,
                   hostTransitions, out, track_idx, stills, pairIdx, keyIdx,
                   clips_selected, transitions_added>>

\* line 73: the script blocks while the host handles the shortcut; whether the host
\* inserts a transition (handles, edition) is the host's business
Sleep ==
    /\ pc = "sleep"
    /\ calls' = Append(calls, Call("sleep", NoClip, ""))
    /\ \E inserted \in BOOLEAN :
         hostTransitions' = IF inserted THEN hostTransitions + 1 ELSE hostTransitions
    /\ pc' = "count"
    /\ UNCHANGED <<platform, hasProject, hasTimeline, tracks, setting, selected, pressed,
                   out, track_idx, stills, pairIdx, keyIdx,
                   clips_selected, transitions_added>>

\* line 131, then the next pair of line 120 or the next track of line 110
CountTransition ==
    /\ pc = "count"
    /\ transitions_added' = transitions_added + 1
    /\ IF pairIdx + 1 < Len(stills)
         THEN /\ pairIdx' = pairIdx + 1
              /\ track_idx' = track_idx
         ELSE /\ pairIdx' = pairIdx
              /\ track_idx' = track_idx + 1
    /\ pc' = IF pairIdx + 1 < Len(stills) THEN "clear" ELSE "track"
    /\ UNCHANGED <<platform, hasProject, hasTimeline, tracks, setting, selected, pressed,
                   hostTransitions, calls, out, stills, keyIdx, clips_selected>>

\* line 133
FinalClear ==
    /\ pc = "final_clear"
    /\ selected' = {}
    /\ calls' = Append(calls, Call("ClearClipSelections", NoClip, ""))
    /\ pc' = "report"
    /\ UNCHANGED <<platform, hasProject, hasTimeline, tracks, setting, pressed,
                   hostTransitions, out, track_idx, stills, pairIdx, keyIdx,
                   clips_selected, transitions_added>>

\* lines 135-138
Report ==
    /\ pc = "report"
    /\ out' = Append(out, IF transitions_added # 0
                            THEN Msg("added", transitions_added, clips_selected \div 2)
                            ELSE Msg("none_added", 0, 0))
    /\ pc' = "done"
    /\ UNCHANGED <<platform, hasProject, hasTimeline, tracks, setting, selected, pressed,
                   hostTransitions, calls, track_idx, stills, pairIdx, keyIdx,
                   clips_selected, transitions_added>>

Next ==
    \/ GetProject
    \/ GetTimeline
    \/ EnsureDefault
    \/ AcquireUI
    \/ CheckTracks
    \/ NextTrack
    \/ ClearClipSelections
    \/ SetClipEnabled
    \/ Select
    \/ KeyPress
    \/ KeyReleaseAll
    \/ Sleep
    \/ CountTransition
    \/ FinalClear
    \/ Report

Spec == Init /\ [][Next]_vars

\* ------------------------------------------------- vocabulary of the claims
Final == pc \in {"returned", "raised", "done"}
Printed(m) == \E i \in 1..Len(out) : out[i].msg = m
LastMsg == IF out = <<>> THEN "" ELSE out[Len(out)].msg
OpsOf(op) == {i \in 1..Len(calls) : calls[i].op = op}
UiOps == {"ClearClipSelections", "SetClipEnabled", "Select", "KeyPress", "KeyReleaseAll"}
IsUiCall(c) == c.op \notin {"GetSetting", "SetSetting"}
\* the selection and keystroke calls (and the sleeps between them), in order
UiCalls == SelectSeq(calls, IsUiCall)

AllClips == UNION {{<<t, i>> : i \in 1..Len(tracks[t])} : t \in 1..Len(tracks)}
StillSet(t) == {c \in AllClips : c[1] = t /\ tracks[t][c[2]].still = "True"}
NumStills(t) == Cardinality(StillSet(t))
\* the k-th still of track t in start order
KthStill(t, k) ==
    CHOOSE c \in StillSet(t) :
        Cardinality({d \in StillSet(t) : tracks[t][d[2]].start < tracks[t][c[2]].start}) = k - 1
Modifier == IF SubSeq(platform, 1, 3) = <<"w", "i", "n">> THEN "Ctrl" ELSE "Cmd"

\* a shortcut is emitted where "T" is pressed
ShortcutIdx == {i \in OpsOf("KeyPress") : calls[i].val = "T"}
\* the clips selected since the last ClearClipSelections before call i
SelectionAt(i) ==
    {calls[j].clip : j \in {j \in OpsOf("Select") :
        j < i /\ \A m \in j..i : calls[m].op # "ClearClipSelections"}}
ShortcutsOnTrack(t) == {i \in ShortcutIdx : \E c \in SelectionAt(i) : c[1] = t}

\* the calls of one pair, and of a whole run that reaches the end of main()
PairCalls(a, b) ==
    <<Call("ClearClipSelections", NoClip, ""),
      Call("SetClipEnabled", a, "True"), Call("SetClipEnabled", b, "True"),
      Call("Select", a, ""), Call("Select", b, ""),
      Call("KeyPress", NoClip, Modifier), Call("KeyPress", NoClip, "T"),
      Call("KeyReleaseAll", NoClip, ""), Call("sleep", NoClip, "")>>
RECURSIVE ExpectedFrom(_, _)
ExpectedFrom(t, k) ==
    IF t > Len(tracks) THEN <<Call("ClearClipSelections", NoClip, "")>>
    ELSE IF k >= NumStills(t) THEN ExpectedFrom(t + 1, 1)
    ELSE PairCalls(KthStill(t, k), KthStill(t, k + 1)) \o ExpectedFrom(t, k + 1)
ExpectedUiCalls == ExpectedFrom(1, 1)

\* ------------------------------------------------------------------ claims
\* C1: the shortcut is emitted exactly once per adjacent pair of stills of each
\* track: every shortcut is sent while exactly the k-th and (k+1)-th still (in
\* start order) of one track are selected, k being its rank among the shortcuts
\* of that track, and a run that reaches the end has sent max(0, n-1) shortcuts
\* on a track with n stills.
C1_ShortcutPerAdjacentPair ==
    /\ \A i \in ShortcutIdx :
         \E t \in 1..Len(tracks) :
           \E k \in 1..(NumStills(t) - 1) :
             /\ SelectionAt(i) = {KthStill(t, k), KthStill(t, k + 1)}
             /\ k = Cardinality({j \in ShortcutsOnTrack(t) : j <= i})
    /\ pc = "done" =>
         /\ \A t \in 1..Len(tracks) :
              Cardinality(ShortcutsOnTrack(t)) =
                IF NumStills(t) >= 1 THEN NumStills(t) - 1 ELSE 0
         /\ \A i \in ShortcutIdx : \E t \in 1..Len(tracks) : i \in ShortcutsOnTrack(t)

C1_Witness ==
    /\ pc = "done"
    /\ \E t \in 1..Len(tracks) :
         /\ NumStills(t) = 3
         /\ tracks[t][1].start > tracks[t][2].start
         /\ Cardinality(ShortcutsOnTrack(t)) = 2

\* C2: a run that aborts (no project, no timeline, no video tracks) prints its
\* message and has issued no selection or keystroke call; in the first two cases
\* it has issued no call at all, so no GetSetting or SetSetting either.
C2_AbortsIssueNoUiCalls ==
    /\ (~hasProject /\ pc # "start") =>
         pc = "returned" /\ out = <<Msg("no_project", 0, 0)>> /\ calls = <<>>
    /\ (hasProject /\ ~hasTimeline /\ pc \notin {"start", "get_timeline"}) =>
         pc = "returned" /\ out = <<Msg("no_timeline", 0, 0)>> /\ calls = <<>>
    /\ (hasTimeline /\ Len(tracks) = 0) =>
         /\ \A i \in 1..Len(calls) : calls[i].op \notin UiOps
         /\ pc \in {"start", "get_timeline", "step1", "step2", "count_tracks",
                    "raised", "returned"}
         /\ pc = "returned" => LastMsg = "no_video_tracks"
    /\ pc = "returned" => \A i \in 1..Len(calls) : calls[i].op \notin UiOps

C2_Witness ==
    /\ pc = "returned"
    /\ hasTimeline
    /\ Len(tracks) = 0
    /\ LastMsg = "no_video_tracks"
    /\ OpsOf("SetSetting") # {}

\* C3: SetSetting is called at most once, only with "Additive Dissolve" and only
\* right after a GetSetting that returned another value; when the first
\* GetSetting returned "Additive Dissolve" there is no SetSetting call and the
\* setting still has that value.
C3_SettingMutatedConditionally ==
    /\ Cardinality(OpsOf("SetSetting")) <= 1
    /\ \A i \in OpsOf("SetSetting") :
         /\ calls[i].val = "Additive Dissolve"
         /\ i > 1
         /\ calls[i - 1].op = "GetSetting"
         /\ calls[i - 1].val # "Additive Dissolve"
    /\ (OpsOf("GetSetting") # {} /\ calls[1].val = "Additive Dissolve") =>
         OpsOf("SetSetting") = {} /\ setting = "Additive Dissolve"
    /\ pc \notin {"start", "get_timeline", "step1", "returned"} => OpsOf("GetSetting") # {}

C3_Witness ==
    /\ pc = "done"
    /\ Cardinality(OpsOf("SetSetting")) = 1
    /\ setting = "Additive Dissolve"
    /\ transitions_added > 0

\* C4: when the UI automation layer is unavailable (the access of lines 99-100
\* raises, or the keystrokes insert nothing), step 1 has been done and the run
\* ends with the reminder to press Ctrl/Cmd T manually.
C4_UnavailableUiPrintsReminder ==
    (pc = "raised" \/ (pc = "done" /\ hostTransitions = 0)) =>
        /\ OpsOf("GetSetting") # {}
        /\ LastMsg = "none_added"

\* C5: the final count is the number of transitions the host inserted, and a
\* pair that got no transition is reported.
C5_ReportsFailedPairs ==
    pc = "done" =>
        /\ LastMsg = "added" => out[Len(out)].n = hostTransitions
        /\ hostTransitions < Cardinality(ShortcutIdx) => Printed("could_not_add")

\* C6: a run that went through step 2 to its end with no transition on the
\* timeline prints the "No transitions were added" warning, and the success
\* message is printed only when at least one transition is on the timeline.
C6_WarningIffNoTransition ==
    /\ (pc = "done" /\ hostTransitions = 0) => Printed("none_added")
    /\ Printed("added") => hostTransitions >= 1

\* C7: a rejected SetSetting prints the warning and the run goes on to step 2: it
\* returns early only for a timeline without video tracks, and a run that reaches
\* the end has issued the selection and keystroke calls the timeline and the
\* platform determine, the same whether SetSetting was rejected, accepted or
\* not called.
Rejected == OpsOf("SetSetting") # {} /\ setting # TRANSITION_NAME
C7_RejectedSettingNotFatal ==
    /\ Rejected =>
         /\ Printed("could_not_set")
         /\ pc # "step1"
         /\ pc = "returned" => Len(tracks) = 0 /\ LastMsg = "no_video_tracks"
    /\ pc = "done" => UiCalls = ExpectedUiCalls
    /\ pc \in {"returned", "raised"} => UiCalls = <<>>

C7_Witness ==
    /\ Rejected
    /\ pc = "done"
    /\ transitions_added = 2
    /\ UiCalls = ExpectedUiCalls

\* C8: the calls of the pairs come in blocks of nine, in this order:
\* ClearClipSelections, SetClipEnabled(True) on both clips, Select on the earlier
\* and on the later clip, KeyPress of the modifier, KeyPress "T", KeyReleaseAll,
\* sleep; a key is held down only between the first KeyPress and KeyReleaseAll.
BlockOps ==
    <<"ClearClipSelections", "SetClipEnabled", "SetClipEnabled", "Select", "Select",
      "KeyPress", "KeyPress", "KeyReleaseAll", "sleep">>
C8_PairStepsStrictlyOrdered ==
    LET U == UiCalls IN
    /\ \A j \in 1..Len(U) :
         LET r == ((j - 1) % 9) + 1 IN
         /\ U[j].op = BlockOps[r]
         /\ r \in {2, 3} => U[j].val = "True"
         /\ r = 3 => /\ U[j].clip # U[j - 1].clip
                     /\ U[j].clip[1] = U[j - 1].clip[1]
                     /\ tracks[U[j].clip[1]][U[j - 1].clip[2]].start
                          < tracks[U[j].clip[1]][U[j].clip[2]].start
         /\ r \in {4, 5} => U[j].clip = U[j - 2].clip
         /\ r = 6 => U[j].val = (IF platform = win32 THEN "Ctrl" ELSE "Cmd")
         /\ r = 7 => U[j].val = "T"
    /\ pressed # {} => pc \in {"keypress", "release"}
    /\ pc \in {"clear", "track", "count", "final_clear"} => Len(U) % 9 = 0
    /\ pc \in {"report", "done"} => Len(U) % 9 = 1

C8_Witness ==
    /\ pc = "count"
    /\ transitions_added = 1
    /\ platform = darwin
    /\ Len(UiCalls) = 18
    /\ pressed = {}

\* C9: a clip that is not a still, and a still of a track with fewer than two
\* stills, never receives SetClipEnabled or Select; after a run that reached the
\* end a still of a track with two or more stills has received each of them once
\* if it is first or last in start order and twice otherwise, the last selection
\* call is ClearClipSelections and no clip is selected.
EnableCount(c) == Cardinality({i \in OpsOf("SetClipEnabled") : calls[i].clip = c})
SelectCount(c) == Cardinality({i \in OpsOf("Select") : calls[i].clip = c})
C9_OnlyPairedStillsTouched ==
    /\ \A c \in AllClips :
         (c \notin StillSet(c[1]) \/ NumStills(c[1]) < 2) =>
             EnableCount(c) = 0 /\ SelectCount(c) = 0
    /\ pc = "done" =>
         /\ \A t \in 1..Len(tracks) : \A k \in 1..NumStills(t) :
              NumStills(t) >= 2 =>
                LET want == IF k = 1 \/ k = NumStills(t) THEN 1 ELSE 2 IN
                /\ EnableCount(KthStill(t, k)) = want
                /\ SelectCount(KthStill(t, k)) = want
         /\ selected = {}
         /\ \A i \in OpsOf("Select") :
              \E j \in OpsOf("ClearClipSelections") : j > i

C9_Witness ==
    /\ pc = "done"
    /\ \E t \in 1..Len(tracks) :
         /\ Len(tracks[t]) = 3
         /\ NumStills(t) = 2
         /\ \E c \in AllClips : c[1] = t /\ c \notin StillSet(t) /\ tracks[t][c[2]].start = 2
    /\ Cardinality(OpsOf("Select")) = 2

\* C10: when the final warning says the default transition was set "(already
\* done)", the setting is "Additive Dissolve".
C10_AlreadyDoneIsTrue ==
    Printed("none_added") => setting = "Additive Dissolve"

====
